---- MODULE Spec2Model ----
(***************************************************************************)
(* Model of the two batch jobs of the repository:                          *)
(*   src/extract_texts.py  - the extractor (extract_clean_text, main)      *)
(*   src/analyze_texts.py  - the analyzer (build_word_frequency,           *)
(*                           analyze_sentiment, compare_vocabularies,      *)
(*                           find_distinctive_words, main)                 *)
(*                                                                         *)
(* Python values are represented as follows.                               *)
(*   list / str          a sequence                                        *)
(*   dict, Counter       a sequence of <<key, value>> pairs in insertion   *)
(*                       order (Python dicts iterate in insertion order)   *)
(*   set                 a set                                             *)
(*   None / exception    a record field (ok, exc) beside the value         *)
(*   float               an exact rational kept as numerator and           *)
(*                       denominator; round(x, d) is rounding of the exact *)
(*                       value to an integer number of 10^-d units, ties   *)
(*                       to even                                           *)
(* The library calls (word_tokenize, stopwords, sent_tokenize, VADER's     *)
(* polarity_scores, re.search) are not reimplemented: their results are    *)
(* the inputs the model draws from bounded sets.                           *)
(***************************************************************************)
EXTENDS Integers, Sequences, FiniteSets, TLC

VARIABLES
    call,         \* the call made to one of the analyzer's functions: its name and arguments
    ret,          \* what that call returned, under the name main gives it
    a_pc,         \* analyzer main: position in main()
    a_idx,        \* analyzer main: index in TEXTS of the file being processed
    a_fs,         \* analyzer main: what open()/read() gave for each file read so far
    text,         \* analyzer main: the local `text` (result of load_text)
    all_tokens,   \* analyzer main: the dict all_tokens
    results,      \* analyzer main: the dict results['texts']
    comparative,  \* analyzer main: results['comparative']
    report,       \* analyzer main: the content of analysis_results.json
    a_out,        \* analyzer main: the lines printed that the claims speak of
    x_pc,         \* extractor main: position in main()
    x_idx,        \* extractor main: index in TEXTS of the file being processed
    x_file,       \* extractor main: the input file of the current iteration, as found on disk
    outputs,      \* extractor main: the output files on disk
    x_out         \* extractor main: the last line printed

pureVars == <<call, ret>>
anVars == <<a_pc, a_idx, a_fs, text, all_tokens, results, comparative, report, a_out>>
exVars == <<x_pc, x_idx, x_file, outputs, x_out>>
vars == <<call, ret, a_pc, a_idx, a_fs, text, all_tokens, results, comparative, report,
          a_out, x_pc, x_idx, x_file, outputs, x_out>>

----------------------------------------------------------------------------
(* Bounds of the model *)

\* longest token sequence given to build_word_frequency
MaxLenF == 4
\* largest top_n given to build_word_frequency
MaxTopF == 3
\* longest token sequence of one text given to the comparative functions
MaxLenD == 2
\* largest top_n given to find_distinctive_words
MaxTopD == 2
\* longest sentence list given to analyze_sentiment
MaxSent == 5
\* largest sample_size given to analyze_sentiment
MaxSample == 3

\* the filtered tokens the texts are made of
Words == {"whale", "sea", "forest"}

\* the text ids of the mappings given to the comparative functions
CmpIds == <<"A", "B", "C">>

\* VADER compound scores of single sentences, in units of 0.0001
\* (polarity_scores rounds compound to 4 decimals)
Scores == {-500, -499, 0, 499, 500}

----------------------------------------------------------------------------
(* Python built-ins *)

Min(a, b) == IF a < b THEN a ELSE b

Range(s) == {s[i] : i \in DOMAIN s}

SeqsUpTo(S, n) == UNION {[1..k -> S] : k \in 0..n}

Front(s) == SubSeq(s, 1, Len(s) - 1)

Last(s) == s[Len(s)]

\* s[:n] for n >= 0
Prefix(s, n) == SubSeq(s, 1, Min(n, Len(s)))

\* s[::step] for step >= 1
Stride(s, step) == [i \in 1..((Len(s) + step - 1) \div step) |-> s[(i - 1) * step + 1]]

\* round(p / q) to an integer, ties to even (q > 0)
RoundHalfEven(p, q) ==
    LET f == p \div q
        r == p % q
    IN  IF 2 * r < q THEN f
        ELSE IF 2 * r > q THEN f + 1
        ELSE IF f % 2 = 0 THEN f ELSE f + 1

\* the keys of a dict
Keys(d) == [i \in DOMAIN d |-> d[i][1]]

\* d[k] for a key k of dict d
Get(d, k) == d[CHOOSE i \in DOMAIN d : d[i][1] = k][2]

\* k in d
Has(d, k) == \E i \in DOMAIN d : d[i][1] = k

\* d[k] = v: a new key goes last, an old key keeps its place
Put(d, k, v) ==
    IF Has(d, k) THEN [i \in DOMAIN d |-> IF d[i][1] = k THEN <<k, v>> ELSE d[i]]
    ELSE Append(d, <<k, v>>)

\* the distinct elements of a sequence in first-occurrence order
RECURSIVE FirstSeen(_)
FirstSeen(tokens) ==
    IF tokens = <<>> THEN <<>>
    ELSE LET k == FirstSeen(Front(tokens))
         IN  IF Last(tokens) \in Range(k) THEN k ELSE Append(k, Last(tokens))

CountOf(tokens, w) == Cardinality({i \in DOMAIN tokens : tokens[i] = w})

\* collections.Counter(tokens): <<word, count>> items in first-occurrence order
Counter(tokens) ==
    LET k == FirstSeen(tokens)
    IN  [i \in DOMAIN k |-> <<k[i], CountOf(tokens, k[i])>>]

\* a broken sort: x goes before the items whose second component equals its own
RECURSIVE InsertDescUnstable(_, _)
InsertDescUnstable(s, x) ==
    IF s = <<>> THEN <<x>>
    ELSE IF s[1][2] > x[2] THEN <<s[1]>> \o InsertDescUnstable(Tail(s), x)
    ELSE <<x>> \o s

\* x goes after every item whose second component is >= its own
RECURSIVE InsertDesc(_, _)
InsertDesc(s, x) ==
    IF s = <<>> THEN <<x>>
    ELSE IF s[1][2] >= x[2] THEN <<s[1]>> \o InsertDesc(Tail(s), x)
    ELSE <<x>> \o s

\* sorted(items, key=lambda x: x[1], reverse=True): descending by the second
\* component, items with equal keys keep their original order
RECURSIVE sorted_reverse(_)
sorted_reverse(items) ==
    IF items = <<>> THEN <<>>
    ELSE InsertDesc(sorted_reverse(Front(items)), Last(items))

\* Counter.most_common(n), which is heapq.nlargest(n, items, key=itemgetter(1)),
\* documented as sorted(items, key=key, reverse=True)[:n]
most_common(freq_dist, n) == Prefix(sorted_reverse(freq_dist), n)

----------------------------------------------------------------------------
(* analyze_texts.py: build_word_frequency *)

\* a broken build_word_frequency: the n least frequent tokens
build_word_frequency_least(tokens, top_n) ==
    LET s == sorted_reverse(Counter(tokens))
    IN  SubSeq(s, Len(s) - Min(top_n, Len(s)) + 1, Len(s))

build_word_frequency(tokens, top_n) ==
    LET freq_dist == Counter(tokens)
    IN  most_common(freq_dist, top_n)

----------------------------------------------------------------------------
(* analyze_texts.py: analyze_sentiment *)

\* a broken sampling step: one more than floor(n / sample_size)
sampling_step_plus_one(n, sample_size) == n \div sample_size + 1

\* step = len(sentences) // sample_size
sampling_step(n, sample_size) == n \div sample_size

\* the sentences that are scored
sample_sentences(sentences, sample_size) ==
    IF Len(sentences) > sample_size
    THEN LET step == sampling_step(Len(sentences), sample_size)
         IN  Prefix(Stride(sentences, step), sample_size)
    ELSE sentences

RECURSIVE Sum(_)
Sum(s) == IF s = <<>> THEN 0 ELSE s[1] + Sum(Tail(s))

\* A sentence is represented by the compound score polarity_scores gives it, in
\* units of 0.0001. avg_compound is the exact mean Sum / Len; the label is
\* decided on that mean, the reported compound is the mean rounded to 4 decimals.
\* The pos / neu / neg means are computed the same way and are left out.
analyze_sentiment(sentences, sample_size) ==
    LET sampled_sentences == sample_sentences(sentences, sample_size)
        sentiments == sampled_sentences
        n == Len(sentiments)
        total == Sum(sentiments)
        overall == IF n > 0
                   THEN IF total >= 500 * n THEN "positive"
                        ELSE IF total <= -500 * n THEN "negative"
                        ELSE "neutral"
                   ELSE "neutral"
    IN  [compound |-> IF n > 0 THEN RoundHalfEven(total, n) ELSE 0,
         overall |-> overall,
         sentences_analyzed |-> Len(sampled_sentences),
         sampled_sentences |-> sampled_sentences]

----------------------------------------------------------------------------
(* analyze_texts.py: compare_vocabularies *)

\* unique_words = {text_id: set(tokens)}
unique_words_of(tokens_by_id) ==
    [i \in DOMAIN tokens_by_id |-> <<tokens_by_id[i][1], Range(tokens_by_id[i][2])>>]

\* the positions of the other ids, in iteration order
others(d, i) == SelectSeq([j \in DOMAIN d |-> j], LAMBDA j : d[j][1] # d[i][1])

\* The nested loops divide by len(unique_words[text_id]) for every other id:
\* a text with no token raises ZeroDivisionError as soon as there is another
\* text, and the exception leaves the function. overlap_percentage is kept in
\* units of 0.01.
compare_vocabularies(tokens_by_id) ==
    LET unique_words == unique_words_of(tokens_by_id)
        entry(i, j) ==
            LET overlap == unique_words[i][2] \cap unique_words[j][2]
            IN  <<unique_words[j][1],
                  [shared_words |-> Cardinality(overlap),
                   overlap_percentage |->
                       RoundHalfEven(Cardinality(overlap) * 10000,
                                     Cardinality(unique_words[i][2]))]>>
        inner(i) == LET o == others(unique_words, i)
                    IN  [k \in DOMAIN o |-> entry(i, o[k])]
        divides_by_zero ==
            \E i \in DOMAIN unique_words :
                /\ others(unique_words, i) # <<>>
                /\ unique_words[i][2] = {}
    IN  IF divides_by_zero
        THEN [exc |-> "ZeroDivisionError", value |-> <<>>]
        ELSE [exc |-> "none",
              value |-> [i \in DOMAIN unique_words |-> <<unique_words[i][1], inner(i)>>]]

----------------------------------------------------------------------------
(* analyze_texts.py: find_distinctive_words *)

\* all_freqs = {text_id: Counter(tokens)}
all_freqs_of(tokens_by_id) ==
    [i \in DOMAIN tokens_by_id |-> <<tokens_by_id[i][1], Counter(tokens_by_id[i][2])>>]

\* how many other texts contain the word
appears_in(all_freqs, i, word) ==
    Cardinality({j \in DOMAIN all_freqs :
                    all_freqs[j][1] # all_freqs[i][1] /\ Has(all_freqs[j][2], word)})

\* a broken score: the multiplier is the number of other texts holding the word
distinctive_scores_wrong_multiplier(all_freqs, i) ==
    LET freq == all_freqs[i][2]
        keep(item) == appears_in(all_freqs, i, item[1]) < Len(all_freqs) - 1
        kept == SelectSeq(freq, keep)
    IN  [k \in DOMAIN kept |->
            <<kept[k][1], kept[k][2] * appears_in(all_freqs, i, kept[k][1])>>]

\* the dict scores of text i: the words not in all other texts, in the order
\* of freq, each with count * (len(all_freqs) - appears_in)
distinctive_scores(all_freqs, i) ==
    LET freq == all_freqs[i][2]
        keep(item) == appears_in(all_freqs, i, item[1]) < Len(all_freqs) - 1
        kept == SelectSeq(freq, keep)
    IN  [k \in DOMAIN kept |->
            <<kept[k][1],
              kept[k][2] * (Len(all_freqs) - appears_in(all_freqs, i, kept[k][1]))>>]

find_distinctive_words(tokens_by_id, top_n) ==
    LET all_freqs == all_freqs_of(tokens_by_id)
        listed(i) ==
            LET top == Prefix(sorted_reverse(distinctive_scores(all_freqs, i)), top_n)
            IN  [k \in DOMAIN top |-> [word |-> top[k][1], score |-> top[k][2]]]
    IN  [i \in DOMAIN all_freqs |-> <<all_freqs[i][1], listed(i)>>]

----------------------------------------------------------------------------
(* extract_texts.py *)

\* longest raw file content read by the extractor run
MaxContent == 3

\* the table TEXTS of extract_texts.py, in its order
EXTRACT_TEXTS ==
    << [input |-> "pg29433.txt", output |-> "clean_emerson_nature.txt"],
       [input |-> "pg205.txt", output |-> "clean_thoreau_walden.txt"],
       [input |-> "pg1322.txt", output |-> "clean_whitman_leaves.txt"],
       [input |-> "pg25344 (1).txt", output |-> "clean_hawthorne_scarlet.txt"],
       [input |-> "pg2701.txt", output |-> "clean_melville_moby.txt"] >>

\* A raw content is a sequence of pieces: "S" is a stretch of text that
\* start_pattern matches, "E" one that end_pattern matches, "w" a whitespace
\* character, "b" any other character.
Pieces == {"S", "E", "w", "b"}

NoFile == [kind |-> "none", content |-> <<>>]

\* what an input path can be on disk: nothing, a file that open() or read()
\* fails on (no permission, a directory, bytes that are not UTF-8), a content
ExtractorFiles ==
    {[kind |-> "missing", content |-> <<>>], [kind |-> "unreadable", content |-> <<>>]}
    \cup {[kind |-> "content", content |-> c] : c \in SeqsUpTo(Pieces, MaxContent)}

\* re.search(pattern, content): the position of the first match, 0 for None
re_search(piece, content) ==
    IF \E i \in DOMAIN content : content[i] = piece
    THEN CHOOSE i \in DOMAIN content :
             content[i] = piece /\ \A j \in 1..(i - 1) : content[j] # piece
    ELSE 0

\* content[a:b] between the end of the piece at position s and the start of the
\* piece at position e; empty when e comes first
slice_between(content, s, e) == SubSeq(content, s + 1, e - 1)

RECURSIVE lstrip(_)
lstrip(str) == IF str # <<>> /\ str[1] = "w" THEN lstrip(Tail(str)) ELSE str

RECURSIVE rstrip(_)
rstrip(str) == IF str # <<>> /\ Last(str) = "w" THEN rstrip(Front(str)) ELSE str

\* str.strip()
strip(str) == rstrip(lstrip(str))

\* a broken extract_clean_text: no try around open() and read()
extract_clean_text_no_try(file) ==
    IF file.kind # "content"
    THEN [exc |-> "OSError", ok |-> FALSE, text |-> <<>>]
    ELSE LET start_match == re_search("S", file.content)
             end_match == re_search("E", file.content)
         IN  IF start_match # 0 /\ end_match # 0
             THEN [exc |-> "none", ok |-> TRUE,
                   text |-> strip(slice_between(file.content, start_match, end_match))]
             ELSE [exc |-> "none", ok |-> FALSE, text |-> <<>>]

\* extract_clean_text: the text between the markers, or None (ok = FALSE) when
\* a marker is not found or when reading the file raises; `except Exception`
\* lets no exception out (exc is always "none")
extract_clean_text(file) ==
    IF file.kind # "content"
    THEN [exc |-> "none", ok |-> FALSE, text |-> <<>>]
    ELSE LET start_match == re_search("S", file.content)
             end_match == re_search("E", file.content)
         IN  IF start_match # 0 /\ end_match # 0
             THEN [exc |-> "none", ok |-> TRUE,
                   text |-> strip(slice_between(file.content, start_match, end_match))]
             ELSE [exc |-> "none", ok |-> FALSE, text |-> <<>>]

\* `if clean_text:` - None and the empty string are both falsy
truthy(clean_text) == clean_text.ok /\ clean_text.text # <<>>

\* the loop reaches the next entry of TEXTS, whose input path is in some state
\* on disk
NextFile ==
    /\ x_pc = "loop"
    /\ x_idx <= Len(EXTRACT_TEXTS)
    /\ \E file \in ExtractorFiles : x_file' = file
    /\ x_pc' = "file"
    /\ UNCHANGED <<x_idx, outputs, x_out>>
    /\ UNCHANGED <<pureVars, anVars>>

\* the body of the loop for that entry
ProcessFile ==
    /\ x_pc = "file"
    /\ IF x_file.kind = "missing"
       THEN /\ x_out' = "File not found"
            /\ x_pc' = "loop"
            /\ UNCHANGED outputs
       ELSE LET clean_text == extract_clean_text(x_file)
            IN  IF clean_text.exc # "none"
                THEN /\ x_out' = clean_text.exc
                     /\ x_pc' = "aborted"
                     /\ UNCHANGED outputs
                ELSE IF truthy(clean_text)
                THEN /\ outputs' = [outputs EXCEPT ![x_idx] =
                                       [written |-> TRUE, data |-> clean_text.text]]
                     /\ x_out' = "Extracted"
                     /\ x_pc' = "loop"
                ELSE /\ x_out' = "Failed to extract text"
                     /\ x_pc' = "loop"
                     /\ UNCHANGED outputs
    /\ x_idx' = x_idx + 1
    /\ x_file' = NoFile
    /\ UNCHANGED <<pureVars, anVars>>

\* after the loop
Finish ==
    /\ x_pc = "loop"
    /\ x_idx > Len(EXTRACT_TEXTS)
    /\ x_out' = "Extraction complete!"
    /\ x_pc' = "done"
    /\ UNCHANGED <<x_idx, x_file, outputs>>
    /\ UNCHANGED <<pureVars, anVars>>

NextExtractor ==
    \/ NextFile
    \/ ProcessFile
    \/ Finish

----------------------------------------------------------------------------
(* The analyzer's functions, each called once on inputs drawn from the bounds *)

\* mappings from the first n ids of CmpIds to token sequences, as all_tokens
\* is built by main: ids in table order
TokenMappings ==
    {[i \in DOMAIN toks |-> <<CmpIds[i], toks[i]>>] :
        toks \in SeqsUpTo(SeqsUpTo(Words, MaxLenD), Len(CmpIds))}

\* the mappings given to the comparative functions: those of the bounds and the
\* example of the specification
ExampleTexts ==
    << <<"A", <<"whale", "whale", "sea">> >>,
       <<"B", <<"whale", "forest">> >>,
       <<"C", <<"forest", "forest", "sea">> >> >>

ComparativeInputs == TokenMappings \cup {ExampleTexts}

Call_build_word_frequency ==
    /\ call.fn = "none"
    /\ \E tokens \in SeqsUpTo(Words, MaxLenF), top_n \in 0..MaxTopF :
        /\ call' = [fn |-> "build_word_frequency", tokens |-> tokens, top_n |-> top_n]
        /\ ret' = [word_freq |-> build_word_frequency(tokens, top_n)]
    /\ UNCHANGED <<anVars, exVars>>

Call_analyze_sentiment ==
    /\ call.fn = "none"
    /\ \E sentences \in SeqsUpTo(Scores, MaxSent), sample_size \in 1..MaxSample :
        /\ call' = [fn |-> "analyze_sentiment", sentences |-> sentences,
                    sample_size |-> sample_size]
        /\ ret' = [sentiment |-> analyze_sentiment(sentences, sample_size)]
    /\ UNCHANGED <<anVars, exVars>>

Call_compare_vocabularies ==
    /\ call.fn = "none"
    /\ \E tokens_by_id \in ComparativeInputs :
        /\ call' = [fn |-> "compare_vocabularies", all_tokens |-> tokens_by_id]
        /\ ret' = [vocab_comparisons |-> compare_vocabularies(tokens_by_id)]
    /\ UNCHANGED <<anVars, exVars>>

Call_find_distinctive_words ==
    /\ call.fn = "none"
    /\ \E tokens_by_id \in ComparativeInputs, top_n \in 0..MaxTopD :
        /\ call' = [fn |-> "find_distinctive_words", all_tokens |-> tokens_by_id,
                    top_n |-> top_n]
        /\ ret' = [distinctive_words |-> find_distinctive_words(tokens_by_id, top_n)]
    /\ UNCHANGED <<anVars, exVars>>

Init ==
    /\ call = [fn |-> "none"]
    /\ ret = [none |-> TRUE]
    /\ a_pc = "loop"
    /\ a_idx = 1
    /\ a_fs = <<>>
    /\ text = [ok |-> FALSE, empty |-> TRUE, tokens |-> <<>>]
    /\ all_tokens = <<>>
    /\ results = <<>>
    /\ comparative = [vocabulary_overlap |-> <<>>, distinctive_words |-> <<>>]
    /\ report = [written |-> FALSE, texts |-> <<>>, vocabulary_overlap |-> <<>>,
                 distinctive_words |-> <<>>]
    /\ a_out = <<>>
    /\ x_pc = "loop"
    /\ x_idx = 1
    /\ x_file = NoFile
    /\ outputs = [i \in DOMAIN EXTRACT_TEXTS |-> [written |-> FALSE, data |-> <<>>]]
    /\ x_out = "Extracting clean text from Project Gutenberg files..."

NextFunctions ==
    \/ Call_build_word_frequency
    \/ Call_analyze_sentiment
    \/ Call_compare_vocabularies
    \/ Call_find_distinctive_words

SpecFunctions == Init /\ [][NextFunctions]_vars

----------------------------------------------------------------------------
(* analyze_texts.py: main *)

\* longest filtered token sequence of a file read by the analyzer run
MaxTokA == 1

\* the filtered tokens of the files read by the analyzer run
RunWords == {"whale", "sea"}

\* the top_n main passes to build_word_frequency
WordFreqTopN == 100

\* the default top_n of find_distinctive_words, which main uses
DistinctiveTopN == 20

\* the table TEXTS, in its order
TEXTS ==
    << [filename |-> "clean_emerson_nature.txt", id |-> "emerson_nature"],
       [filename |-> "clean_thoreau_walden.txt", id |-> "thoreau_walden"],
       [filename |-> "clean_whitman_leaves.txt", id |-> "whitman_leaves"],
       [filename |-> "clean_hawthorne_scarlet.txt", id |-> "hawthorne_scarlet"],
       [filename |-> "clean_melville_moby.txt", id |-> "melville_moby"] >>

\* What a file can be when load_text opens it. A content is the empty string
\* (empty) or a non-empty string, of which the model keeps what
\* clean_and_tokenize makes of it (tokens): a non-empty text of stopwords,
\* digits or blanks alone has no token.
AnalyzerFiles ==
    {[kind |-> "missing", empty |-> TRUE, tokens |-> <<>>],
     [kind |-> "unreadable", empty |-> TRUE, tokens |-> <<>>],
     [kind |-> "content", empty |-> TRUE, tokens |-> <<>>]}
    \cup {[kind |-> "content", empty |-> FALSE, tokens |-> t] : t \in SeqsUpTo(RunWords, MaxTokA)}

\* load_text: the content, or None when open() or read() raises
load_text(file) ==
    IF file.kind = "content"
    THEN [ok |-> TRUE, empty |-> file.empty, tokens |-> file.tokens]
    ELSE [ok |-> FALSE, empty |-> TRUE, tokens |-> <<>>]

\* a broken test: `if text is None`
not_text_none_only(t) == ~t.ok

\* `not text`: None and the empty string are both falsy
not_text(t) == ~t.ok \/ t.empty

\* clean_and_tokenize(text)
clean_and_tokenize(t) == t.tokens

\* One iteration of the loop over TEXTS. The statistics and the sentiment of
\* the text come from library calls on the raw text and raise nothing (their
\* divisions are guarded); of the entry stored in results['texts'] the model
\* keeps filtered_tokens and word_frequency.
ProcessText ==
    /\ a_pc = "loop"
    /\ a_idx <= Len(TEXTS)
    /\ \E file \in AnalyzerFiles :
        LET text_id == TEXTS[a_idx].id
            loaded == load_text(file)
            tokens == clean_and_tokenize(loaded)
        IN  /\ a_fs' = Append(a_fs, file)
            /\ text' = loaded
            /\ IF not_text(loaded)
               THEN /\ UNCHANGED <<all_tokens, results>>
                    /\ a_out' = IF loaded.ok THEN a_out
                                ELSE Append(a_out, "Error loading " \o TEXTS[a_idx].filename)
               ELSE /\ all_tokens' = Put(all_tokens, text_id, tokens)
                    /\ results' = Put(results, text_id,
                                      [filtered_tokens |-> Len(tokens),
                                       word_frequency |-> build_word_frequency(tokens, WordFreqTopN)])
                    /\ a_out' = Append(a_out, "Complete " \o text_id)
    /\ a_idx' = a_idx + 1
    /\ UNCHANGED <<a_pc, comparative, report>>
    /\ UNCHANGED <<pureVars, exVars>>

\* The comparative phase. No try surrounds the two calls: an exception raised
\* in compare_vocabularies leaves main, and the run ends there.
Comparative ==
    /\ a_pc = "loop"
    /\ a_idx > Len(TEXTS)
    /\ LET vocab_comparisons == compare_vocabularies(all_tokens)
           distinctive_words == find_distinctive_words(all_tokens, DistinctiveTopN)
       IN  IF vocab_comparisons.exc # "none"
           THEN /\ a_pc' = "aborted"
                /\ a_out' = Append(a_out, vocab_comparisons.exc)
                /\ UNCHANGED comparative
           ELSE /\ a_pc' = "export"
                /\ a_out' = a_out
                /\ comparative' = [vocabulary_overlap |-> vocab_comparisons.value,
                                   distinctive_words |-> distinctive_words]
    /\ UNCHANGED <<a_idx, a_fs, text, all_tokens, results, report>>
    /\ UNCHANGED <<pureVars, exVars>>

\* json.dump(results) to analysis_results.json
Export ==
    /\ a_pc = "export"
    /\ report' = [written |-> TRUE, texts |-> results,
                  vocabulary_overlap |-> comparative.vocabulary_overlap,
                  distinctive_words |-> comparative.distinctive_words]
    /\ a_out' = Append(a_out, "Analysis complete")
    /\ a_pc' = "summary"
    /\ UNCHANGED <<a_idx, a_fs, text, all_tokens, results, comparative>>
    /\ UNCHANGED <<pureVars, exVars>>

\* the summary printed at the end
Summary ==
    /\ a_pc = "summary"
    /\ a_out' = Append(a_out, "ANALYSIS SUMMARY")
    /\ a_pc' = "done"
    /\ UNCHANGED <<a_idx, a_fs, text, all_tokens, results, comparative, report>>
    /\ UNCHANGED <<pureVars, exVars>>

NextAnalyzer ==
    \/ ProcessText
    \/ Comparative
    \/ Export
    \/ Summary

SpecAnalyzer == Init /\ [][NextAnalyzer]_vars

SpecExtractor == Init /\ [][NextExtractor]_vars

----------------------------------------------------------------------------
(* Vocabulary of the claims, stated on the arguments and not through the   *)
(* functions above                                                          *)

\* the position of the first occurrence of w in tokens
FirstIndex(tokens, w) == CHOOSE i \in DOMAIN tokens : tokens[i] = w /\ \A j \in 1..(i - 1) : tokens[j] # w

\* the number of texts other than the i-th whose tokens contain w
OtherTextsWith(m, i, w) == Cardinality({j \in DOMAIN m : j # i /\ w \in Range(m[j][2])})

\* w is missing from at least one text other than the i-th
AbsentFromAnOther(m, i, w) == \E j \in DOMAIN m : j # i /\ w \notin Range(m[j][2])

\* count_in_T(w) * (N - appears_in(w)) for the i-th text
ExpectedScore(m, i, w) == CountOf(m[i][2], w) * (Len(m) - OtherTextsWith(m, i, w))

----------------------------------------------------------------------------
(* Claims about build_word_frequency *)

\* C4: build_word_frequency(tokens, top_n) has exactly min(top_n, number of
\* distinct tokens) entries, each distinct token at most once with its
\* occurrence count as value; the counts are non-increasing in iteration order,
\* no token left out has a higher count than one included, and tokens with equal
\* counts come in first-encountered order.
C4_FrequencyTable ==
    call.fn = "build_word_frequency" =>
        LET tokens == call.tokens
            top_n == call.top_n
            table == ret.word_freq
            included == {table[i][1] : i \in DOMAIN table}
        IN  /\ Len(table) = Min(top_n, Cardinality(Range(tokens)))
            /\ Len(table) <= top_n
            /\ \A i, j \in DOMAIN table : i # j => table[i][1] # table[j][1]
            /\ \A i \in DOMAIN table :
                  /\ table[i][1] \in Range(tokens)
                  /\ table[i][2] = CountOf(tokens, table[i][1])
            /\ \A i, j \in DOMAIN table : i < j => table[i][2] >= table[j][2]
            /\ \A w \in Range(tokens) \ included :
                  \A i \in DOMAIN table : CountOf(tokens, w) <= table[i][2]
            /\ \A i, j \in DOMAIN table :
                  (i < j /\ table[i][2] = table[j][2])
                      => FirstIndex(tokens, table[i][1]) < FirstIndex(tokens, table[j][1])

\* C4 witness: a table cut by top_n that holds tokens of different counts and
\* leaves out a token whose count equals that of a token included
C4_Witness ==
    /\ call.fn = "build_word_frequency"
    /\ Len(ret.word_freq) = call.top_n
    /\ Cardinality(Range(call.tokens)) > call.top_n
    /\ \E i, j \in DOMAIN ret.word_freq : ret.word_freq[i][2] > ret.word_freq[j][2]
    /\ \E w \in Range(call.tokens) :
          /\ \A j \in DOMAIN ret.word_freq : w # ret.word_freq[j][1]
          /\ \E i \in DOMAIN ret.word_freq : CountOf(call.tokens, w) = ret.word_freq[i][2]

----------------------------------------------------------------------------
(* Claims about analyze_sentiment *)

\* C5 (as claimed): the label of a sentiment summary is the thresholding of the
\* compound score reported in the same summary: positive iff compound >= 0.05,
\* negative iff compound <= -0.05, neutral otherwise.
C5_LabelMatchesReportedCompound ==
    call.fn = "analyze_sentiment" =>
        LET summary == ret.sentiment
        IN  /\ (summary.overall = "positive") <=> (summary.compound >= 500)
            /\ (summary.overall = "negative") <=> (summary.compound <= -500)
            /\ (summary.overall = "neutral")
                   <=> (summary.compound > -500 /\ summary.compound < 500)

\* C6: the sentences scored are all n sentences when n <= sample_size, and
\* otherwise those at positions 0, k, 2k, ... (k = floor(n / sample_size)) cut
\* to the first sample_size of them, in the original order; sentences_analyzed
\* is min(n, sample_size).
C6_StrideSample ==
    call.fn = "analyze_sentiment" =>
        LET sentences == call.sentences
            n == Len(sentences)
            sample_size == call.sample_size
            k == n \div sample_size
            positions == {p \in 0..(n - 1) : p % k = 0}
            expected ==
                IF n <= sample_size THEN sentences
                ELSE [i \in 1..Min(sample_size, Cardinality(positions)) |->
                         sentences[(i - 1) * k + 1]]
        IN  /\ ret.sentiment.sampled_sentences = expected
            /\ ret.sentiment.sentences_analyzed = Min(n, sample_size)

\* C6 witness: more sentences than sample_size, a stride of at least 2 that
\* does not divide n, more strided positions than sample_size so that the cut
\* takes effect, and sentences that are not all the same
C6_Witness ==
    /\ call.fn = "analyze_sentiment"
    /\ Len(call.sentences) > call.sample_size
    /\ Len(call.sentences) \div call.sample_size >= 2
    /\ Len(call.sentences) % (Len(call.sentences) \div call.sample_size) # 0
    /\ Len(Stride(call.sentences, Len(call.sentences) \div call.sample_size))
           > call.sample_size
    /\ ret.sentiment.sentences_analyzed = call.sample_size
    /\ \E i, j \in DOMAIN call.sentences : call.sentences[i] # call.sentences[j]

----------------------------------------------------------------------------
(* Claims about compare_vocabularies *)

\* C2 (as claimed): for every mapping of text ids to token sequences,
\* compare_vocabularies returns a result with an entry for every ordered pair
\* (A, B) of distinct ids and none for (A, A); shared_words is the size of the
\* intersection of the two distinct-token sets, and so is the same for (A, B)
\* and (B, A).
C2_SharedWords ==
    call.fn = "compare_vocabularies" =>
        LET m == call.all_tokens
            ids == {m[i][1] : i \in DOMAIN m}
            vocabulary(a) == Range(Get(m, a))
            comparisons == ret.vocab_comparisons.value
            entry(a, b) == Get(Get(comparisons, a), b)
        IN  /\ ret.vocab_comparisons.exc = "none"
            /\ Range(Keys(comparisons)) = ids
            /\ Len(comparisons) = Len(m)
            /\ \A a \in ids :
                  /\ Range(Keys(Get(comparisons, a))) = ids \ {a}
                  /\ Len(Get(comparisons, a)) = Cardinality(ids \ {a})
                  /\ \A b \in ids \ {a} :
                        /\ entry(a, b).shared_words
                               = Cardinality(vocabulary(a) \cap vocabulary(b))
                        /\ entry(a, b).shared_words = entry(b, a).shared_words

----------------------------------------------------------------------------
(* Claims about find_distinctive_words *)

\* C3: in find_distinctive_words over N texts, a word of text T is eligible
\* exactly when it is absent from at least one other text, that is when
\* appears_in < N - 1; every entry returned for T is an eligible word of T with
\* score count_in_T * (N - appears_in), which is at least its count in T; the
\* list has as many entries as there are eligible words, up to top_n; with one
\* text no word is eligible. For the example of the specification the entries
\* of A are whale with 4 and sea with 2.
C3_DistinctiveScore ==
    call.fn = "find_distinctive_words" =>
        LET m == call.all_tokens
            N == Len(m)
            distinctive == ret.distinctive_words
            eligible(i) == {w \in Range(m[i][2]) : OtherTextsWith(m, i, w) < N - 1}
        IN  /\ Len(distinctive) = N
            /\ \A i \in DOMAIN m :
                  LET list == distinctive[i][2]
                  IN  /\ distinctive[i][1] = m[i][1]
                      /\ \A w \in Range(m[i][2]) :
                            (w \in eligible(i)) <=> AbsentFromAnOther(m, i, w)
                      /\ \A k \in DOMAIN list :
                            /\ list[k].word \in eligible(i)
                            /\ list[k].score = ExpectedScore(m, i, list[k].word)
                            /\ list[k].score >= CountOf(m[i][2], list[k].word)
                      /\ \A k, l \in DOMAIN list : k # l => list[k].word # list[l].word
                      /\ Len(list) = Min(call.top_n, Cardinality(eligible(i)))
                      /\ N = 1 => list = <<>>
            /\ (m = ExampleTexts /\ call.top_n >= 2) =>
                   distinctive[1] = <<"A", <<[word |-> "whale", score |-> 4],
                                             [word |-> "sea", score |-> 2]>> >>

\* C3 witness: three texts, the first of which has a word found in both others
\* (left out) and a word found in no other (returned with multiplier 3)
C3_Witness ==
    /\ call.fn = "find_distinctive_words"
    /\ Len(call.all_tokens) = 3
    /\ \E w \in Range(call.all_tokens[1][2]) : OtherTextsWith(call.all_tokens, 1, w) = 2
    /\ \E k \in DOMAIN ret.distinctive_words[1][2] :
          LET e == ret.distinctive_words[1][2][k]
          IN  /\ OtherTextsWith(call.all_tokens, 1, e.word) = 0
              /\ e.score = 3 * CountOf(call.all_tokens[1][2], e.word)

\* C9: the list returned for a text has at most top_n entries, its scores are
\* non-increasing, no eligible word left out has a higher score than a word
\* included, and words of equal score come in the order of their first
\* occurrence in the text's token sequence.
C9_DistinctiveRanking ==
    call.fn = "find_distinctive_words" =>
        LET m == call.all_tokens
        IN  \A i \in DOMAIN m :
                LET list == ret.distinctive_words[i][2]
                    tokens == m[i][2]
                    included == {list[k].word : k \in DOMAIN list}
                    left_out == {w \in Range(tokens) :
                                    AbsentFromAnOther(m, i, w) /\ w \notin included}
                IN  /\ Len(list) <= call.top_n
                    /\ \A k, l \in DOMAIN list : k < l => list[k].score >= list[l].score
                    /\ \A w \in left_out : \A k \in DOMAIN list :
                          ExpectedScore(m, i, w) <= list[k].score
                    /\ \A k, l \in DOMAIN list :
                          (k < l /\ list[k].score = list[l].score)
                              => FirstIndex(tokens, list[k].word)
                                     < FirstIndex(tokens, list[l].word)

\* C9 witness: among several texts, a text whose list holds two words of equal
\* score, the second of which comes first in another text
C9_Witness ==
    /\ call.fn = "find_distinctive_words"
    /\ \E i, j \in DOMAIN ret.distinctive_words :
          LET list == ret.distinctive_words[i][2]
              other == call.all_tokens[j][2]
          IN  /\ i # j
              /\ Len(list) = 2
              /\ list[1].score = list[2].score
              /\ other # <<>> /\ other[1] = list[2].word

----------------------------------------------------------------------------
(* Claims about the analyzer run *)

\* the ids of the texts of TEXTS read so far with a non-empty content, in
\* table order
LoadedIds ==
    LET idx == SelectSeq([i \in DOMAIN a_fs |-> i],
                         LAMBDA i : a_fs[i].kind = "content" /\ ~a_fs[i].empty)
    IN  [k \in DOMAIN idx |-> TEXTS[idx[k]].id]

\* C1 (as claimed): whatever the load outcomes and the contents of the texts,
\* the run does not end before analysis_results.json is written and the summary
\* is printed: no error of the per-text or of the comparative phase aborts it.
C1_RunCompletes ==
    a_pc \in {"done", "aborted"} =>
        /\ a_pc = "done"
        /\ report.written
        /\ "ANALYSIS SUMMARY" \in Range(a_out)

\* C10: in a report that is written, texts, vocabulary_overlap and
\* distinctive_words have the same keys in the same order, the ids of the texts
\* loaded with a non-empty content in the order of TEXTS; the other ids inside
\* a text's overlap entry are loaded ids too, so a text that failed to load
\* appears nowhere.
C10_ReportKeys ==
    report.written =>
        /\ Keys(report.texts) = LoadedIds
        /\ Keys(report.vocabulary_overlap) = LoadedIds
        /\ Keys(report.distinctive_words) = LoadedIds
        /\ \A i \in DOMAIN report.vocabulary_overlap :
              Range(Keys(report.vocabulary_overlap[i][2]))
                  = Range(LoadedIds) \ {report.vocabulary_overlap[i][1]}

\* C10 witness: a report written after a run that met a missing file, an
\* unreadable file, an empty file and two loaded texts, the first file of the
\* table not being loaded
C10_Witness ==
    /\ report.written
    /\ \E i, j, k \in DOMAIN a_fs :
          /\ a_fs[i].kind = "missing"
          /\ a_fs[j].kind = "unreadable"
          /\ a_fs[k].kind = "content" /\ a_fs[k].empty
    /\ a_fs[1].kind # "content"
    /\ Len(LoadedIds) = 2
    /\ Len(report.texts) = 2

----------------------------------------------------------------------------
(* Claims about the extractor run *)

\* the positions of the first start marker and of the first end marker
FirstStart(content) == CHOOSE i \in DOMAIN content :
                           content[i] = "S" /\ \A j \in 1..(i - 1) : content[j] # "S"

FirstEnd(content) == CHOOSE i \in DOMAIN content :
                         content[i] = "E" /\ \A j \in 1..(i - 1) : content[j] # "E"

BothMarkers(content) == "S" \in Range(content) /\ "E" \in Range(content)

\* what lies strictly between the first start marker and the first end marker
Interior(content) ==
    [i \in 1..(FirstEnd(content) - FirstStart(content) - 1) |-> content[FirstStart(content) + i]]

\* str without its leading and trailing whitespace
Trimmed(str) ==
    LET solid == {i \in DOMAIN str : str[i] # "w"}
    IN  IF solid = {} THEN <<>>
        ELSE LET lo == CHOOSE i \in solid : \A j \in solid : i <= j
                 hi == CHOOSE i \in solid : \A j \in solid : i >= j
             IN  [i \in 1..(hi - lo + 1) |-> str[lo + i - 1]]

\* the file of the current iteration is missing, unreadable or lacks a marker
Failing(file) == file.kind # "content" \/ ~BothMarkers(file.content)

\* C7 (as claimed): a file in which both markers are found has the trimmed text
\* between the first start marker and the first end marker written to its
\* output path, also when that text is empty or the end marker comes first.
C7_WritesInterior ==
    [][(x_pc = "file" /\ x_file.kind = "content" /\ BothMarkers(x_file.content))
           => outputs'[x_idx] = [written |-> TRUE, data |-> Trimmed(Interior(x_file.content))]]_vars

\* C8: a file that is missing, unreadable or lacks a marker has no output
\* written and does not stop the run: the loop goes on to the next entry, the
\* outputs of the other entries are left as they are, a later file with both
\* markers and a non-empty text between them gets that text written whatever
\* came before, and the run ends with the completion line as the last line
\* printed: until then a step of the run is always possible.
C8_FailuresAreSkipped ==
    /\ [][/\ x_pc = "file" =>
               /\ x_pc' = "loop"
               /\ x_idx' = x_idx + 1
               /\ \A j \in DOMAIN outputs : j # x_idx => outputs'[j] = outputs[j]
               /\ Failing(x_file) => outputs'[x_idx] = outputs[x_idx]
               /\ (~Failing(x_file) /\ Trimmed(Interior(x_file.content)) # <<>>) =>
                      outputs'[x_idx] = [written |-> TRUE,
                                         data |-> Trimmed(Interior(x_file.content))]
          /\ x_pc' # "aborted"
          /\ (x_pc = "loop" /\ x_idx <= Len(EXTRACT_TEXTS)) => x_pc' = "file"
          /\ (x_pc = "loop" /\ x_idx > Len(EXTRACT_TEXTS)) =>
                 (x_pc' = "done" /\ x_out' = "Extraction complete!")
          /\ x_pc' = "done" => x_out' = "Extraction complete!"]_vars
    /\ [](x_pc # "done" => ENABLED NextExtractor)

\* C8 witness: the run is over, the first and the last file have their output,
\* and no output was written for the three files between them
C8_Witness ==
    /\ x_pc = "done"
    /\ x_out = "Extraction complete!"
    /\ outputs[1].written
    /\ ~outputs[2].written /\ ~outputs[3].written /\ ~outputs[4].written
    /\ outputs[5].written

====
